---------------------------- MODULE Spec2Model ----------------------------
(***************************************************************************)
(* Model of libcppa's textual codec (src/src/string_serialization.cpp):    *)
(* string_serializer (the text writer), string_deserializer (the text      *)
(* reader) and the two entry points from_string / detail::to_string.       *)
(*                                                                         *)
(* Text is a sequence of one-character strings.  A cursor (m_pos) is the   *)
(* 0-based offset of the iterator from m_str.begin().                      *)
(***************************************************************************)
EXTENDS Integers, Sequences, FiniteSets, TLC

VARIABLES
    \* string_serializer
    out, m_open_objects, m_after_value, m_obj_just_opened,
    \* string_deserializer
    m_str, m_pos, m_obj_count, m_obj_had_left_parenthesis,
    \* from_string / to_string and the type registry
    pc, registry, uname, ndeserialize,
    \* the descriptor driving the codec: what it wrote, what it still reads
    driver, written, todo,
    \* the last codec call and what it returned
    last,
    \* history: begin_sequence calls that returned, less end_sequence calls
    \* that returned
    open_sequences

vars == << out, m_open_objects, m_after_value, m_obj_just_opened,
           m_str, m_pos, m_obj_count, m_obj_had_left_parenthesis,
           pc, registry, uname, ndeserialize, driver, written, todo, last,
           open_sequences >>

writer_vars == << out, m_open_objects, m_after_value, m_obj_just_opened >>

reader_vars == << m_str, m_pos, m_obj_count, m_obj_had_left_parenthesis >>

---------------------------------------------------------------------------
(* Bounds of the model *)

\* longest input text enumerated exhaustively
MaxLen == 3

\* deepest nesting of begin_object calls
MaxDepth == 2

\* longest read_tuple / write_tuple
MaxTuple == 1

---------------------------------------------------------------------------
(* Characters *)

\* what *m_pos yields at m_str.end(): the terminator std::string stores
NUL == "NUL"

DQ == "\""

BS == "\\"

\* the characters input texts are drawn from
TextChars == {"F", "1", " ", ",", "(", ")", "{", "}", DQ, BS}

\* *m_pos
At(s, p) == IF p < Len(s) THEN s[p + 1] ELSE NUL

\* std::string(first, last) over offsets
Sub(s, first, lst) == SubSeq(s, first + 1, lst)

\* all sequences over S of length exactly n
RECURSIVE SeqsOfLen(_, _)
SeqsOfLen(S, n) ==
    IF n = 0 THEN {<<>>}
    ELSE {Append(t, c) : t \in SeqsOfLen(S, n - 1), c \in S}

SeqsUpTo(S, n) == UNION {SeqsOfLen(S, k) : k \in 0..n}

---------------------------------------------------------------------------
(* primitive_variant and primitive_type *)

pt_int32 == "pt_int32"

pt_u8string == "pt_u8string"

PTypes == {pt_int32, pt_u8string}

IntVariant(n) == [ty |-> pt_int32, n |-> n, s |-> <<>>]

StrVariant(s) == [ty |-> pt_u8string, n |-> 0, s |-> s]

\* primitive_variant result(ptype): value-initialised
DefaultVariant(ptype) == [ty |-> ptype, n |-> 0, s |-> <<>>]

DigitChars == <<"0", "1", "2", "3", "4", "5", "6", "7", "8", "9">>

IsDigit(c) == \E d \in 1..10 : DigitChars[d] = c

DigitVal(c) == (CHOOSE d \in 1..10 : DigitChars[d] = c) - 1

\* out << value for a non-negative integer: decimal digits
RECURSIVE NatDigits(_)
NatDigits(n) ==
    IF n < 10 THEN <<DigitChars[n + 1]>>
    ELSE Append(NatDigits(n \div 10), DigitChars[(n % 10) + 1])

\* pt_writer::operator()(const T&): out << value
IntText(n) == IF n < 0 THEN <<"-">> \o NatDigits(-n) ELSE NatDigits(n)

\* the digits of an istringstream extraction, left to right
RECURSIVE ParseDigits(_, _, _)
ParseDigits(str, i, acc) ==
    IF i <= Len(str) /\ IsDigit(str[i])
    THEN ParseDigits(str, i + 1, acc * 10 + DigitVal(str[i]))
    ELSE acc

\* from_string::operator()(T&): istringstream s(str); s >> what.
\* An optional sign, then digits up to the first other character; a token
\* without digits fails the extraction and stores 0.
ParseInt(str) ==
    LET signed == Len(str) > 0 /\ str[1] \in {"-", "+"}
        first  == IF signed THEN 2 ELSE 1
        mag    == ParseDigits(str, first, 0)
    IN IF signed /\ str[1] = "-" THEN -mag ELSE mag

---------------------------------------------------------------------------
(* string_serializer: the operations, as functions of the writer state     *)
(* w = [out, open, after, just] (out, m_open_objects, m_after_value,       *)
(* m_obj_just_opened).                                                     *)

Writer(o, open, after, just) ==
    [out |-> o, open |-> open, after |-> after, just |-> just]

\* pt_writer::operator()(const std::string&), the loop: '"' becomes '\"'
RECURSIVE escape(_)
escape(str) ==
    IF str = <<>> THEN <<>>
    ELSE (IF Head(str) = DQ THEN <<BS, DQ>> ELSE <<Head(str)>>) \o escape(Tail(str))

\* pt_writer that writes the string as it is
pt_writer_raw(v) ==
    IF v.ty = pt_u8string THEN <<DQ>> \o v.s \o <<DQ>> ELSE IntText(v.n)

\* value.apply(pt_writer(out))
pt_writer(v) ==
    IF v.ty = pt_u8string THEN <<DQ>> \o escape(v.s) \o <<DQ>> ELSE IntText(v.n)

\* clear() that emits the ", " but never the " ( "
clear_noparen(w) ==
    IF w.after THEN [w EXCEPT !.out = @ \o <<",", " ">>, !.after = FALSE]
    ELSE [w EXCEPT !.just = FALSE]

clear(w) ==
    IF w.after THEN [w EXCEPT !.out = @ \o <<",", " ">>, !.after = FALSE]
    ELSE IF w.just THEN [w EXCEPT !.out = @ \o <<" ", "(", " ">>, !.just = FALSE]
    ELSE w

ss_begin_object(w, type_name) ==
    LET c == clear(w)
    IN [c EXCEPT !.open = @ + 1, !.out = @ \o type_name, !.just = TRUE]

\* end_object that always closes a parenthesis
ss_end_object_always(w) ==
    [w EXCEPT !.out = @ \o (IF w.after THEN <<" ", ")">> ELSE <<")">>),
              !.just = FALSE, !.after = TRUE]

ss_end_object(w) ==
    IF w.just THEN [w EXCEPT !.just = FALSE, !.after = TRUE]
    ELSE [w EXCEPT !.out = @ \o (IF w.after THEN <<" ", ")">> ELSE <<")">>),
                   !.after = TRUE]

ss_begin_sequence(w) ==
    LET c == clear(w)
    IN [c EXCEPT !.out = @ \o <<"{", " ">>]

ss_end_sequence(w) ==
    [w EXCEPT !.out = @ \o (IF w.after THEN <<" ", "}">> ELSE <<"}">>)]

ss_write_value(w, value) ==
    LET c == clear(w)
    IN [c EXCEPT !.out = @ \o pt_writer(value), !.after = TRUE]

\* the loop of write_tuple
RECURSIVE write_tuple_loop(_, _)
write_tuple_loop(w, values) ==
    IF values = <<>> THEN w
    ELSE write_tuple_loop(ss_write_value(w, Head(values)), Tail(values))

ss_write_tuple(w, values) ==
    LET c == clear(w)
        b == [c EXCEPT !.out = @ \o <<" ", "{">>]
        l == write_tuple_loop(b, values)
    IN [l EXCEPT !.out = @ \o (IF l.after THEN <<" ", "}">> ELSE <<"}">>)]

---------------------------------------------------------------------------
(* string_deserializer: scanning helpers *)

RECURSIVE skip_space_and_comma(_, _)
skip_space_and_comma(s, p) ==
    IF At(s, p) = " " \/ At(s, p) = ","
    THEN skip_space_and_comma(s, p + 1)
    ELSE p

\* std::find_if(first, m_str.end(), c \in D): offset of the first hit, or end
RECURSIVE find_if(_, _, _)
find_if(s, p, D) ==
    IF p >= Len(s) THEN Len(s)
    ELSE IF s[p + 1] \in D THEN p
    ELSE find_if(s, p + 1, D)

Delimiters == {"(", ")", "{", "}", " ", ","}

next_delimiter(s, p) == find_if(s, p, Delimiters)

\* the lambda find_if_cond of read_value
ValueDelimiters == {")", "}", " ", ","}

find_if_cond(s, p) == find_if(s, p, ValueDelimiters)

\* the lambda find_if_str_cond of read_value: a '"' not preceded by '\'
RECURSIVE find_if_str_cond(_, _, _)
find_if_str_cond(s, p, last_char) ==
    IF p >= Len(s) THEN Len(s)
    ELSE IF s[p + 1] = DQ /\ last_char # BS THEN p
    ELSE find_if_str_cond(s, p + 1, s[p + 1])

\* consume(c) that returns instead of throwing
consume_nothrow(s, p, c) ==
    LET q == skip_space_and_comma(s, p)
    IN IF At(s, q) = c THEN [ok |-> TRUE, pos |-> q + 1]
       ELSE [ok |-> TRUE, pos |-> q]

consume(s, p, c) ==
    LET q == skip_space_and_comma(s, p)
    IN IF At(s, q) # c THEN [ok |-> FALSE, pos |-> q]
       ELSE [ok |-> TRUE, pos |-> q + 1]

\* try_consume that steps over the character it finds, whatever it is
try_consume_any(s, p, c) ==
    LET q == skip_space_and_comma(s, p)
    IN [res |-> At(s, q) = c, pos |-> q + 1]

try_consume(s, p, c) ==
    LET q == skip_space_and_comma(s, p)
    IN IF At(s, q) = c THEN [res |-> TRUE, pos |-> q + 1]
       ELSE [res |-> FALSE, pos |-> q]

\* std::count(first, last, c) over offsets
RECURSIVE count(_, _, _, _)
count(s, first, lst, c) ==
    IF first >= lst THEN 0
    ELSE (IF s[first + 1] = c THEN 1 ELSE 0) + count(s, first + 1, lst, c)

\* the lambda cond of read_value's unescape loop: a '"' preceded by '\';
\* last_char is captured by reference and outlives each find_if call
RECURSIVE find_escaped(_, _, _)
find_escaped(sub, i, last_char) ==
    IF i >= Len(sub) THEN [i |-> Len(sub), last_char |-> last_char]
    ELSE IF sub[i + 1] = DQ /\ last_char = BS
         THEN [i |-> i, last_char |-> last_char]
    ELSE find_escaped(sub, i + 1, sub[i + 1])

\* the for loop of read_value that replaces '\"' by '"'.  tmp.append(sbegin, i)
\* with i before sbegin is undefined; ub records that the loop got there.
RECURSIVE unescape_loop(_, _, _, _)
unescape_loop(sub, sbegin, f, tmp) ==
    IF f.i = Len(sub) THEN [tmp |-> tmp, sbegin |-> sbegin, ub |-> FALSE]
    ELSE LET i == f.i - 1
         IN IF i < sbegin THEN [tmp |-> tmp, sbegin |-> sbegin, ub |-> TRUE]
            ELSE unescape_loop(sub, i + 2,
                               find_escaped(sub, i + 2, f.last_char),
                               tmp \o Sub(sub, sbegin, i) \o <<DQ>>)

unescape(sub) ==
    LET l   == unescape_loop(sub, 0, find_escaped(sub, 0, " "), <<>>)
        tmp == IF l.sbegin # 0 THEN l.tmp \o Sub(sub, l.sbegin, Len(sub))
               ELSE l.tmp
    IN [ub |-> l.ub, str |-> IF tmp # <<>> THEN tmp ELSE sub]

---------------------------------------------------------------------------
(* string_deserializer: the operations, as functions of the text s and the *)
(* reader state r = [pos, cnt, stk].  stk is m_obj_had_left_parenthesis,   *)
(* its top the last element.  Each returns the state the call leaves       *)
(* behind, whether it returned (ok) or threw, and what it returned.        *)

Reader(pos, cnt, stk) == [pos |-> pos, cnt |-> cnt, stk |-> stk]

Top(stk) == stk[Len(stk)]

Pop(stk) == SubSeq(stk, 1, Len(stk) - 1)

Returned(r, str, num, vals) ==
    [ok |-> TRUE, ub |-> FALSE, r |-> r, str |-> str, num |-> num, vals |-> vals]

\* throw_malformed / throw std::logic_error
Thrown(r) ==
    [ok |-> FALSE, ub |-> FALSE, r |-> r, str |-> <<>>, num |-> 0, vals |-> <<>>]

\* the undefined tmp.append of the unescape loop: the build at hand throws
\* std::length_error from basic_string::append
Undefined(r) ==
    [ok |-> FALSE, ub |-> TRUE, r |-> r, str |-> <<>>, num |-> 0, vals |-> <<>>]

\* integrity_check that looks for an open object only, not at its flag
integrity_check_open(r) == r.stk # <<>>

\* integrity_check returns normally
integrity_check(r) == r.stk # <<>> /\ Top(r.stk) = TRUE

sd_seek_object(s, r) ==
    LET p          == skip_space_and_comma(s, r.pos)
        substr_end == next_delimiter(s, p)
    IN IF p = substr_end THEN Thrown([r EXCEPT !.pos = p])
       ELSE Returned([r EXCEPT !.pos = substr_end], Sub(s, p, substr_end), 0, <<>>)

\* peek_object that leaves the cursor where seek_object put it
sd_peek_object_norestore(s, r) == sd_seek_object(s, r)

sd_peek_object(s, r) ==
    LET k == sd_seek_object(s, r)
    IN IF ~k.ok THEN k
       ELSE [k EXCEPT !.r.pos = k.r.pos - Len(k.str)]

\* begin_object that counts only the objects whose '(' it found
sd_begin_object_flagged(s, r) ==
    LET t == try_consume(s, skip_space_and_comma(s, r.pos), "(")
    IN Returned(Reader(t.pos, r.cnt + (IF t.res THEN 1 ELSE 0),
                       Append(r.stk, t.res)), <<>>, 0, <<>>)

sd_begin_object(s, r) ==
    LET t == try_consume(s, skip_space_and_comma(s, r.pos), "(")
    IN Returned(Reader(t.pos, r.cnt + 1, Append(r.stk, t.res)), <<>>, 0, <<>>)

\* end_object without the end-of-input check of lines 261-268
sd_end_object_nocheck(s, r) ==
    IF r.stk = <<>> THEN Thrown(r)
    ELSE LET c == IF Top(r.stk) = TRUE THEN consume(s, r.pos, ")")
                  ELSE [ok |-> TRUE, pos |-> r.pos]
         IN IF ~c.ok THEN Thrown([r EXCEPT !.pos = c.pos])
            ELSE Returned(Reader(c.pos, r.cnt - 1, Pop(r.stk)), <<>>, 0, <<>>)

\* end_object that consumes a ')' whatever the flag on top of the stack
sd_end_object_anyflag(s, r) ==
    IF r.stk = <<>> THEN Thrown(r)
    ELSE LET c == consume(s, r.pos, ")")
         IN IF ~c.ok THEN Thrown([r EXCEPT !.pos = c.pos])
            ELSE IF r.cnt - 1 = 0
                 THEN LET q == skip_space_and_comma(s, c.pos)
                          e == Reader(q, 0, Pop(r.stk))
                      IN IF q # Len(s) THEN Thrown(e)
                         ELSE Returned(e, <<>>, 0, <<>>)
                 ELSE Returned(Reader(c.pos, r.cnt - 1, Pop(r.stk)), <<>>, 0, <<>>)

sd_end_object(s, r) ==
    IF r.stk = <<>> THEN Thrown(r)
    ELSE LET c == IF Top(r.stk) = TRUE THEN consume(s, r.pos, ")")
                  ELSE [ok |-> TRUE, pos |-> r.pos]
         IN IF ~c.ok THEN Thrown([r EXCEPT !.pos = c.pos])
            ELSE IF r.cnt - 1 = 0
                 THEN LET q == skip_space_and_comma(s, c.pos)
                          e == Reader(q, 0, Pop(r.stk))
                      IN IF q # Len(s) THEN Thrown(e)
                         ELSE Returned(e, <<>>, 0, <<>>)
                 ELSE Returned(Reader(c.pos, r.cnt - 1, Pop(r.stk)), <<>>, 0, <<>>)

sd_begin_sequence(s, r) ==
    IF ~integrity_check(r) THEN Thrown(r)
    ELSE LET c == consume(s, r.pos, "{")
         IN IF ~c.ok THEN Thrown([r EXCEPT !.pos = c.pos])
            ELSE LET list_end == find_if(s, c.pos, {"}"})
                 IN Returned([r EXCEPT !.pos = c.pos], <<>>,
                             count(s, c.pos, list_end, ",") + 1, <<>>)

sd_end_sequence(s, r) ==
    LET c == consume(s, r.pos, "}")
    IN IF ~c.ok THEN Thrown([r EXCEPT !.pos = c.pos])
       ELSE Returned([r EXCEPT !.pos = c.pos], <<>>, 0, <<>>)

sd_read_value(s, r, ptype) ==
    IF ~integrity_check(r) THEN Thrown(r)
    ELSE
    LET p0     == skip_space_and_comma(s, r.pos)
        quoted == ptype = pt_u8string /\ At(s, p0) = DQ
        p1     == IF quoted THEN p0 + 1 ELSE p0
        substr_end == IF quoted THEN find_if_str_cond(s, p1, DQ)
                      ELSE find_if_cond(s, p1)
    IN IF substr_end = Len(s) THEN Thrown([r EXCEPT !.pos = p1])
       ELSE
       LET substr == Sub(s, p1, substr_end)
           p2     == p1 + Len(substr)
       IN IF ptype = pt_u8string
          THEN IF At(s, p2) # DQ THEN Thrown([r EXCEPT !.pos = p2])
               ELSE LET u == unescape(substr)
                    IN IF u.ub THEN Undefined([r EXCEPT !.pos = p2 + 1])
                       ELSE Returned([r EXCEPT !.pos = p2 + 1], <<>>, 0,
                                     <<StrVariant(u.str)>>)
          ELSE Returned([r EXCEPT !.pos = p2], <<>>, 0,
                        <<IntVariant(ParseInt(substr))>>)

\* the loop of read_tuple over the tags types[i..]
RECURSIVE read_tuple_loop(_, _, _, _, _)
read_tuple_loop(s, r, types, i, storage) ==
    IF i > Len(types)
    THEN LET c == consume(s, r.pos, "}")
         IN IF ~c.ok THEN Thrown([r EXCEPT !.pos = c.pos])
            ELSE Returned([r EXCEPT !.pos = c.pos], <<>>, 0, storage)
    ELSE LET v == sd_read_value(s, r, types[i])
         IN IF ~v.ok THEN v
            ELSE read_tuple_loop(s, v.r, types, i + 1, storage \o v.vals)

sd_read_tuple(s, r, types) ==
    IF ~integrity_check(r) THEN Thrown(r)
    ELSE LET c == consume(s, r.pos, "{")
         IN IF ~c.ok THEN Thrown([r EXCEPT !.pos = c.pos])
            ELSE read_tuple_loop(s, [r EXCEPT !.pos = c.pos], types, 1, <<>>)

---------------------------------------------------------------------------
(* The calls a type descriptor makes on the reader.  A descriptor is code   *)
(* outside this file: driver "any" makes any call, in any order, and may    *)
(* catch what a call throws; driver "mirror" replays, call for call, what   *)
(* the same descriptor's serialize wrote (todo), and lets a throw pass.     *)

\* a call: its name, and of its arguments and of what the caller expects back
\* the ones that apply (the tags and values of read_value / read_tuple /
\* write_value / write_tuple, a type name, an element count)
Call(op, types, expect, name, num) ==
    [op |-> op, types |-> types, expect |-> expect, name |-> name, num |-> num]

Plain(op) == Call(op, <<>>, <<>>, <<>>, 0)

ReaderCalls ==
    {Plain(op) :
        op \in {"seek_object", "peek_object", "begin_object", "end_object",
                "begin_sequence", "end_sequence"}}
    \cup {Call("read_value", <<t>>, <<>>, <<>>, 0) : t \in PTypes}
    \cup {Call("read_tuple", ts, <<>>, <<>>, 0) : ts \in SeqsUpTo(PTypes, MaxTuple)}

Offered ==
    IF driver.kind = "any" THEN ReaderCalls
    ELSE IF todo # <<>> /\ last.ok THEN {Head(todo)}
    ELSE {}

\* the reader, as the operations take it
R == Reader(m_pos, m_obj_count, m_obj_had_left_parenthesis)

NoCall == Plain("none")

\* side: "reader" or "writer"; str: the name a reader call returned, or the
\* text a writer call emitted; pre: the reader before the call
Last(side, c, k, pre) ==
    [side |-> side, op |-> c.op, call |-> c, ok |-> k.ok, ub |-> k.ub,
     str |-> k.str, num |-> k.num, vals |-> k.vals, pre |-> pre]

\* a reader call c that ended as k
Ran(c, k) ==
    /\ m_pos' = k.r.pos
    /\ m_obj_count' = k.r.cnt
    /\ m_obj_had_left_parenthesis' = k.r.stk
    /\ last' = Last("reader", c, k, R)
    /\ todo' = IF driver.kind = "any" THEN todo ELSE Tail(todo)
    /\ open_sequences' =
          IF c.op = "begin_sequence" /\ k.ok THEN open_sequences + 1
          ELSE IF c.op = "end_sequence" /\ k.ok THEN open_sequences - 1
          ELSE open_sequences
    /\ UNCHANGED << m_str, writer_vars, pc, registry, uname, ndeserialize,
                    driver, written >>

SdSeekObject ==
    /\ pc = "deserialize"
    /\ \E c \in Offered :
        /\ c.op = "seek_object"
        /\ Ran(c, sd_seek_object(m_str, R))

SdPeekObject ==
    /\ pc = "deserialize"
    /\ \E c \in Offered :
        /\ c.op = "peek_object"
        /\ Ran(c, sd_peek_object(m_str, R))

SdBeginObject ==
    /\ pc = "deserialize"
    /\ driver.kind = "any" => Len(m_obj_had_left_parenthesis) < MaxDepth
    /\ \E c \in Offered :
        /\ c.op = "begin_object"
        /\ Ran(c, sd_begin_object(m_str, R))

SdEndObject ==
    /\ pc = "deserialize"
    /\ \E c \in Offered :
        /\ c.op = "end_object"
        /\ Ran(c, sd_end_object(m_str, R))

SdBeginSequence ==
    /\ pc = "deserialize"
    /\ \E c \in Offered :
        /\ c.op = "begin_sequence"
        /\ Ran(c, sd_begin_sequence(m_str, R))

SdEndSequence ==
    /\ pc = "deserialize"
    /\ \E c \in Offered :
        /\ c.op = "end_sequence"
        /\ Ran(c, sd_end_sequence(m_str, R))

SdReadValue ==
    /\ pc = "deserialize"
    /\ \E c \in Offered :
        /\ c.op = "read_value"
        /\ Ran(c, sd_read_value(m_str, R, c.types[1]))

SdReadTuple ==
    /\ pc = "deserialize"
    /\ \E c \in Offered :
        /\ c.op = "read_tuple"
        /\ Ran(c, sd_read_tuple(m_str, R, c.types))

---------------------------------------------------------------------------
(* from_string *)

\* uniform_type_info::by_uniform_name(uname) != nullptr
lookup_always(reg, name) == TRUE

lookup(reg, name) == name \in reg

\* std::string uname = strd.peek_object();
FromStringPeek ==
    /\ pc = "peek"
    /\ LET k == sd_peek_object(m_str, R)
       IN /\ m_pos' = k.r.pos
          /\ m_obj_count' = k.r.cnt
          /\ m_obj_had_left_parenthesis' = k.r.stk
          /\ last' = Last("reader", Plain("peek_object"), k, R)
          /\ uname' = k.str
          /\ pc' = IF k.ok THEN "lookup" ELSE "threw"
    /\ UNCHANGED << m_str, writer_vars, registry, ndeserialize, driver,
                    written, todo, open_sequences >>

\* auto utype = by_uniform_name(uname); if (utype == nullptr) throw ...;
\* return utype->deserialize(&strd);
FromStringLookup ==
    /\ pc = "lookup"
    /\ IF lookup(registry, uname)
       THEN /\ pc' = "deserialize"
            /\ ndeserialize' = ndeserialize + 1
       ELSE /\ pc' = "threw"
            /\ UNCHANGED ndeserialize
    /\ UNCHANGED << reader_vars, writer_vars, registry, uname, driver,
                    written, todo, last, open_sequences >>

\* deserialize returns, or what it threw leaves from_string
FromStringReturn ==
    /\ pc = "deserialize"
    /\ driver.kind = "mirror" => (todo = <<>> \/ ~last.ok)
    /\ pc' = IF last.ok THEN "done" ELSE "threw"
    /\ UNCHANGED << reader_vars, writer_vars, registry, uname, ndeserialize,
                    driver, written, todo, last, open_sequences >>

---------------------------------------------------------------------------
(* The reader over arbitrary input: from_string(what), what any text of up  *)
(* to MaxLen characters or one of Samples, the descriptor making any calls. *)

Samples == {
    <<"F","o","o"," ","("," ","1",","," ","2">>,
    <<"F","o","o"," ","("," ","1",","," ","2"," ",")">>,
    <<"F"," ","("," ","{"," ","1",","," ","2",","," ","3"," ","}"," ",")">>,
    <<"F"," ","("," ","{"," ","}"," ",")">>,
    <<" ","F"," ","("," ","F"," ",")","x">>,
    <<"F"," ","("," ",DQ,"a",BS,DQ,"b",DQ," ",")">>,
    <<"F"," ","("," ",DQ,"a",")",DQ>>,
    <<",",",","F","(","F","(","1"," ",")",")",","," ">> }

Texts == SeqsUpTo(TextChars, MaxLen) \cup Samples

Registries == {{<<"F">>, <<"F","F">>, <<"F","o","o">>}, {<<"F">>, <<"1">>}}

InitWriter ==
    /\ out = <<>>
    /\ m_open_objects = 0
    /\ m_after_value = FALSE
    /\ m_obj_just_opened = FALSE

Init ==
    /\ InitWriter
    /\ m_str \in Texts
    /\ m_pos = 0
    /\ m_obj_count = 0
    /\ m_obj_had_left_parenthesis = <<>>
    /\ pc = "peek"
    /\ registry \in Registries
    /\ uname = <<>>
    /\ ndeserialize = 0
    /\ driver = [kind |-> "any", prims |-> {}, maxcalls |-> 0]
    /\ written = <<>>
    /\ todo = <<>>
    /\ last = Last("reader", NoCall, Returned(R, <<>>, 0, <<>>), R)
    /\ open_sequences = 0

Next ==
    \/ FromStringPeek
    \/ FromStringLookup
    \/ FromStringReturn
    \/ SdSeekObject
    \/ SdPeekObject
    \/ SdBeginObject
    \/ SdEndObject
    \/ SdBeginSequence
    \/ SdEndSequence
    \/ SdReadValue
    \/ SdReadTuple

Spec == Init /\ [][Next]_vars

---------------------------------------------------------------------------
(* detail::to_string: the descriptor's serialize drives the writer.  A     *)
(* descriptor writes one object; in it, values, tuples, sequences and      *)
(* nested objects, every scope closed by its opener.                       *)

\* the writer, as the operations take it
W == Writer(out, m_open_objects, m_after_value, m_obj_just_opened)

TypeNames == {<<"F">>}

\* the scopes the calls of log left open, innermost last
RECURSIVE Scopes(_)
Scopes(log) ==
    IF log = <<>> THEN <<>>
    ELSE LET before == Scopes(SubSeq(log, 1, Len(log) - 1))
             c      == log[Len(log)]
         IN IF c.op = "begin_object" THEN Append(before, "obj")
            ELSE IF c.op = "begin_sequence" THEN Append(before, "seq")
            ELSE IF c.op \in {"end_object", "end_sequence"} THEN Pop(before)
            ELSE before

\* a caller that nests its calls: driver "free" makes any writer call at any
\* time; every other driver makes a call only where nested holds
Nests(nested) == driver.kind = "free" \/ nested

\* one more call c leaves room to close every open scope
Room(c) ==
    IF driver.kind = "free" THEN Len(written) + 1 <= driver.maxcalls
    ELSE Len(written) + 1 + Len(Scopes(Append(written, c))) <= driver.maxcalls

Tuples == SeqsUpTo(driver.prims, MaxTuple)

TypesOf(values) == [i \in 1..Len(values) |-> values[i].ty]

\* a writer call c that left the writer as w
Wrote(c, w) ==
    /\ Room(c)
    /\ out' = w.out
    /\ m_open_objects' = w.open
    /\ m_after_value' = w.after
    /\ m_obj_just_opened' = w.just
    /\ written' = Append(written, c)
    /\ last' = Last("writer", c,
                    Returned(R, Sub(w.out, Len(out), Len(w.out)), 0, <<>>), R)
    /\ UNCHANGED << reader_vars, pc, registry, uname, ndeserialize, driver,
                    todo, open_sequences >>

SsBeginObject ==
    /\ pc = "serialize"
    /\ Nests(written = <<>> \/ Scopes(written) # <<>>)
    /\ \E name \in TypeNames :
        Wrote(Call("begin_object", <<>>, <<>>, name, 0), ss_begin_object(W, name))

SsEndObject ==
    /\ pc = "serialize"
    /\ Nests(Scopes(written) # <<>> /\ Top(Scopes(written)) = "obj")
    /\ Wrote(Plain("end_object"), ss_end_object(W))

SsBeginSequence ==
    /\ pc = "serialize"
    /\ Nests(Scopes(written) # <<>>)
    /\ Wrote(Plain("begin_sequence"), ss_begin_sequence(W))

SsEndSequence ==
    /\ pc = "serialize"
    /\ Nests(Scopes(written) # <<>> /\ Top(Scopes(written)) = "seq")
    /\ Wrote(Plain("end_sequence"), ss_end_sequence(W))

SsWriteValue ==
    /\ pc = "serialize"
    /\ Nests(Scopes(written) # <<>>)
    /\ \E v \in driver.prims :
        Wrote(Call("write_value", <<v.ty>>, <<v>>, <<>>, 0), ss_write_value(W, v))

SsWriteTuple ==
    /\ pc = "serialize"
    /\ Nests(Scopes(written) # <<>>)
    /\ \E vs \in Tuples :
        Wrote(Call("write_tuple", TypesOf(vs), vs, <<>>, Len(vs)),
              ss_write_tuple(W, vs))

\* utype->serialize(what, &strs) returns; return osstr.str()
ToStringReturn ==
    /\ pc = "serialize"
    /\ written # <<>> /\ Scopes(written) = <<>>
    /\ pc' = "rendered"
    /\ UNCHANGED << reader_vars, writer_vars, registry, uname, ndeserialize,
                    driver, written, todo, last, open_sequences >>

---------------------------------------------------------------------------
(* The round trip: from_string(to_string(value)), the descriptor's         *)
(* deserialize mirroring its serialize.                                    *)

\* the elements of the sequence opened by log[i]: the values, tuples,
\* objects and sequences written before its end_sequence, outside any scope
\* opened inside it
RECURSIVE Elements(_, _, _)
Elements(log, i, depth) ==
    IF i > Len(log) THEN 0
    ELSE LET c == log[i]
         IN IF c.op \in {"end_object", "end_sequence"}
            THEN IF depth = 0 THEN 0 ELSE Elements(log, i + 1, depth - 1)
            ELSE (IF depth = 0 THEN 1 ELSE 0)
                 + Elements(log, i + 1,
                            IF c.op \in {"begin_object", "begin_sequence"}
                            THEN depth + 1 ELSE depth)

\* the reader calls that mirror the writer call log[i]
MirrorOf(log, i) ==
    LET c == log[i]
    IN IF c.op = "begin_object"
       THEN << Call("seek_object", <<>>, <<>>, c.name, 0),
               Call("begin_object", <<>>, <<>>, c.name, 0) >>
       ELSE IF c.op = "begin_sequence"
       THEN << Call("begin_sequence", <<>>, <<>>, <<>>, Elements(log, i + 1, 0)) >>
       ELSE IF c.op = "write_value"
       THEN << Call("read_value", c.types, c.expect, <<>>, 0) >>
       ELSE IF c.op = "write_tuple"
       THEN << Call("read_tuple", c.types, c.expect, <<>>, c.num) >>
       ELSE << Plain(c.op) >>

RECURSIVE Mirror(_, _)
Mirror(log, i) ==
    IF i > Len(log) THEN <<>> ELSE MirrorOf(log, i) \o Mirror(log, i + 1)

\* string_deserializer strd(what), what the text to_string returned
FromStringConstruct ==
    /\ pc = "rendered"
    /\ m_str' = out
    /\ m_pos' = 0
    /\ m_obj_count' = 0
    /\ m_obj_had_left_parenthesis' = <<>>
    /\ todo' = Mirror(written, 1)
    /\ pc' = "peek"
    /\ UNCHANGED << writer_vars, registry, uname, ndeserialize, driver,
                    written, last, open_sequences >>

\* most writer calls of one value
MaxCalls == 6

\* the primitive values a value of SpecRT holds
Prims == {IntVariant(12), StrVariant(<<"a", DQ>>)}

InitRoundTrip(d) ==
    /\ InitWriter
    /\ m_str = <<>>
    /\ m_pos = 0
    /\ m_obj_count = 0
    /\ m_obj_had_left_parenthesis = <<>>
    /\ pc = "serialize"
    /\ registry = {<<"F">>}
    /\ uname = <<>>
    /\ ndeserialize = 0
    /\ driver = d
    /\ written = <<>>
    /\ todo = <<>>
    /\ last = Last("writer", NoCall, Returned(R, <<>>, 0, <<>>), R)
    /\ open_sequences = 0

InitRT == InitRoundTrip([kind |-> "mirror", prims |-> Prims, maxcalls |-> MaxCalls])

NextRT ==
    \/ SsBeginObject
    \/ SsEndObject
    \/ SsBeginSequence
    \/ SsEndSequence
    \/ SsWriteValue
    \/ SsWriteTuple
    \/ ToStringReturn
    \/ FromStringConstruct
    \/ FromStringPeek
    \/ FromStringLookup
    \/ FromStringReturn
    \/ SdSeekObject
    \/ SdBeginObject
    \/ SdEndObject
    \/ SdBeginSequence
    \/ SdEndSequence
    \/ SdReadValue
    \/ SdReadTuple

SpecRT == InitRT /\ [][NextRT]_vars

---------------------------------------------------------------------------
(* The round trip of a value whose strings are all one byte string: any of *)
(* up to MaxStrLen characters, or one of StrSamples.                       *)

MaxStrLen == 2

\* most writer calls of one value of SpecStr
MaxStrCalls == 4

StrChars == {"a", DQ, BS, " ", ",", "(", ")", "{", "}"}

\* longer strings: he said "hi", quotes at both ends, three quotes in a row,
\* a backslash before a quote
StrSamples == {
    <<"h","e"," ","s","a","i","d"," ",DQ,"h","i",DQ>>,
    <<DQ,"a",DQ>>,
    <<DQ,DQ,DQ>>,
    <<"a",DQ,DQ,"b",DQ>>,
    <<BS,DQ,DQ>> }

InitStr ==
    \E str \in SeqsUpTo(StrChars, MaxStrLen) \cup StrSamples :
        InitRoundTrip([kind |-> "mirror", prims |-> {StrVariant(str)},
                       maxcalls |-> MaxStrCalls])

SpecStr == InitStr /\ [][NextRT]_vars

---------------------------------------------------------------------------
(* The writer alone, its caller making any call at any time.               *)

\* most writer calls of SpecW
MaxWriterCalls == 3

InitW == InitRoundTrip([kind |-> "free", prims |-> Prims,
                        maxcalls |-> MaxWriterCalls])

NextW ==
    \/ SsBeginObject
    \/ SsEndObject
    \/ SsBeginSequence
    \/ SsEndSequence
    \/ SsWriteValue
    \/ SsWriteTuple

SpecW == InitW /\ [][NextW]_vars

---------------------------------------------------------------------------
(* to_string alone: the writer under a descriptor that nests its calls.    *)

NextToString ==
    \/ NextW
    \/ ToStringReturn

SpecToString == InitRT /\ [][NextToString]_vars

---------------------------------------------------------------------------
(* Properties *)

\* the mirrored reader calls made so far
Made == Len(Mirror(written, 1)) - Len(todo)

\* the mirrored reader call made before the last one
Previous == Mirror(written, 1)[Made - 1]

ReadBack == last.side = "reader" /\ last.op \in {"read_value", "read_tuple"}

HasBackslash(str) == \E i \in 1..Len(str) : str[i] = BS

\* C1 (round trip): reading back the text written for a value, with the
\* mirrored calls, raises no error, and every read_value (alone or within
\* read_tuple) returns the value that was written.
C1_RoundTrip ==
    /\ pc # "threw"
    /\ last.side = "reader" => last.ok
    /\ ReadBack => last.vals = last.call.expect

\* the text between two double quotes with every '"' of str written as '\"'
RECURSIVE Quoted(_, _)
Quoted(str, i) ==
    IF i > Len(str) THEN <<DQ>>
    ELSE IF i = 0 THEN <<DQ>> \o Quoted(str, 1)
    ELSE (IF str[i] = DQ THEN <<BS, DQ>> ELSE <<str[i]>>) \o Quoted(str, i + 1)

Suffix(str, n) == SubSeq(str, Len(str) - n + 1, Len(str))

\* the strings the last call wrote or was to read back, none with a backslash
NoBackslash ==
    \A i \in 1..Len(last.call.expect) :
        /\ last.call.expect[i].ty = pt_u8string
        /\ ~HasBackslash(last.call.expect[i].s)

\* C2 (escaped quotes): a byte string without backslash, whatever double
\* quotes it holds, is written by write_value between two double quotes with
\* each '"' as '\"', after nothing but the separator; read_value with the
\* string tag over that text returns the string and leaves the cursor just
\* past the closing quote.
C2_EscapedQuotes ==
    /\ (last.side = "writer" /\ last.op = "write_value" /\ NoBackslash) =>
          LET q == Quoted(last.call.expect[1].s, 0)
          IN /\ Len(last.str) >= Len(q)
             /\ Suffix(last.str, Len(q)) = q
             /\ SubSeq(last.str, 1, Len(last.str) - Len(q))
                    \in {<<>>, <<",", " ">>, <<" ", "(", " ">>}
    /\ (last.side = "reader" /\ last.op = "read_value" /\ NoBackslash) =>
          LET q     == Quoted(last.call.expect[1].s, 0)
              start == skip_space_and_comma(m_str, last.pre.pos)
          IN /\ last.ok
             /\ last.vals = last.call.expect
             /\ Sub(m_str, start, m_pos) = q
             /\ m_pos = start + Len(q)

\* a string with two adjacent double quotes was read back
C2_Witness ==
    /\ last.side = "reader" /\ last.op = "read_value" /\ last.ok
    /\ NoBackslash
    /\ \E i \in 1..(Len(last.vals[1].s) - 1) :
          last.vals[1].s[i] = DQ /\ last.vals[1].s[i + 1] = DQ

\* the last writer call closed an object right after opening it
VoidWritten ==
    /\ last.side = "writer" /\ last.op = "end_object"
    /\ written[Len(written) - 1].op = "begin_object"

\* the last reader call opened an object that the next call closes
VoidOpened ==
    /\ last.side = "reader" /\ last.op = "begin_object"
    /\ todo # <<>> /\ Head(todo).op = "end_object"

\* the last reader call closed an object right after opening it
VoidClosed ==
    /\ last.side = "reader" /\ last.op = "end_object"
    /\ Previous.op = "begin_object"

\* C3 (void object): for an object without fields, at any depth, the writer
\* emits the type name and no parenthesis (the text ends with the name once
\* the object is closed); the reader's begin_object records that no '(' was
\* there, its end_object consumes no ')', and neither raises an error.
C3_VoidObject ==
    /\ VoidWritten =>
          LET name == written[Len(written) - 1].name
          IN /\ last.str = <<>>
             /\ Suffix(out, Len(name)) = name
    /\ VoidOpened =>
          /\ last.ok
          /\ Top(m_obj_had_left_parenthesis) = FALSE
          /\ m_pos = skip_space_and_comma(m_str, last.pre.pos)
    /\ VoidClosed =>
          /\ last.ok
          /\ \A i \in (last.pre.pos + 1)..m_pos : m_str[i] # ")"

\* a void object nested in another object was read back
C3_Witness ==
    /\ VoidClosed
    /\ last.ok
    /\ Len(last.pre.stk) >= 2
    /\ pc = "deserialize"

\* C4 (sequence count): the count begin_sequence returns over a written
\* sequence is the number of its elements.
C4_SequenceCount ==
    (last.side = "reader" /\ last.op = "begin_sequence" /\ last.ok) =>
        last.num = last.call.num

\* the last call was the reader's end_object on an object whose '(' was read
ClosedParenthesised ==
    /\ last.side = "reader" /\ last.op = "end_object"
    /\ last.pre.stk # <<>> /\ Top(last.pre.stk) = TRUE

\* C5 (missing closing parenthesis): when begin_object consumed a '(' and
\* no ')' stands between the cursor and the end of input, end_object does
\* not return: it raises an error.
C5_MissingParen ==
    (ClosedParenthesised /\ last.ok) =>
        \E i \in (last.pre.pos + 1)..Len(m_str) : m_str[i] = ")"

\* on "Foo ( 1, 2", after read_value returned 1, end_object raised
C5_Witness ==
    /\ ClosedParenthesised
    /\ ~last.ok
    /\ m_str = <<"F","o","o"," ","("," ","1",","," ","2">>
    /\ last.pre.pos >= 7

Separators == {" ", ","}

\* the last call was the reader's end_object and took the counter to zero
BroughtToZero ==
    /\ last.side = "reader" /\ last.op = "end_object"
    /\ last.pre.cnt = 1 /\ m_obj_count = 0

\* C6 (trailing garbage): an end_object that takes the counter to zero
\* returns only if nothing but spaces and commas follows the object (its ')'
\* included, if it had a '('), and then leaves the cursor at the end of
\* input; otherwise it raises an error, the cursor on the offending character.
C6_TrailingGarbage ==
    BroughtToZero =>
        /\ last.ok <=> m_pos = Len(m_str)
        /\ last.ok =>
              /\ \A i \in (last.pre.pos + 1)..Len(m_str) :
                    m_str[i] \in Separators \cup {")"}
              /\ Cardinality({i \in (last.pre.pos + 1)..Len(m_str) : m_str[i] = ")"})
                    = IF Top(last.pre.stk) THEN 1 ELSE 0
        /\ ~last.ok => m_str[m_pos + 1] \notin Separators

\* the outermost object was closed and separators after its ')' were skipped
C6_Witness ==
    /\ BroughtToZero
    /\ last.ok
    /\ Top(last.pre.stk)
    /\ m_str[Len(m_str)] \in Separators
    /\ pc = "deserialize"

\* C7 (protocol misuse): end_object, read_value and begin_sequence raise an
\* error when no object is open, and end_sequence raises an error when no
\* sequence opened by begin_sequence is open.
C7_ProtocolMisuse ==
    /\ (/\ last.side = "reader"
        /\ last.op \in {"end_object", "read_value", "begin_sequence"}
        /\ last.pre.stk = <<>>) => ~last.ok
    /\ (/\ last.side = "reader"
        /\ last.op = "end_sequence"
        /\ last.ok) => open_sequences >= 0

\* C8 (idempotent peek): after a peek_object that returned (which it does
\* from the states where seek_object would), a seek_object returns the same
\* name and leaves the cursor where a single seek_object from the state
\* before the peek would.
C8_IdempotentPeek ==
    (last.side = "reader" /\ last.op = "peek_object") =>
        LET single == sd_seek_object(m_str, last.pre)
            second == sd_seek_object(m_str, R)
        IN /\ last.ok <=> single.ok
           /\ last.ok =>
                /\ second.ok
                /\ second.str = last.str
                /\ single.str = last.str
                /\ second.r = single.r

\* the descriptor peeked a name that separators precede
C8_Witness ==
    /\ last.side = "reader" /\ last.op = "peek_object" /\ last.ok
    /\ pc = "deserialize"
    /\ m_pos > last.pre.pos
    /\ Len(last.str) > 1

\* C9 (peek_object does not consume): after a peek_object that returned, the
\* cursor, the counter and the flag stack are what they were before it.
C9_PeekDoesNotConsume ==
    (last.side = "reader" /\ last.op = "peek_object" /\ last.ok) =>
        /\ m_pos = last.pre.pos
        /\ m_obj_count = last.pre.cnt
        /\ m_obj_had_left_parenthesis = last.pre.stk

\* C10 (unregistered type): when the peeked name is not in the registry,
\* from_string throws and deserialize is never invoked; deserialize is
\* invoked once, and only with a name the registry holds.
C10_UnregisteredType ==
    /\ ndeserialize \in {0, 1}
    /\ ndeserialize = 1 => uname \in registry
    /\ pc \in {"deserialize", "done"} => ndeserialize = 1
    /\ (uname \notin registry /\ pc \notin {"serialize", "rendered", "peek", "lookup"})
          => (pc = "threw" /\ ndeserialize = 0)

\* a name was peeked, the registry does not hold it, from_string threw
C10_Witness ==
    /\ pc = "threw"
    /\ last.op = "peek_object" /\ last.ok
    /\ uname # <<>>
    /\ uname \notin registry
    /\ ndeserialize = 0


\* the calls of log named op
Calls(log, op) == Cardinality({i \in 1..Len(log) : log[i].op = op})

\* the writer calls made before the last one
Before == SubSeq(written, 1, Len(written) - 1)

\* the last call was the writer's end_object, made when no object was open:
\* not more begin_object calls before it than end_object calls
EndWithoutBegin ==
    /\ written # <<>>
    /\ last.side = "writer" /\ last.op = "end_object"
    /\ Calls(Before, "begin_object") <= Calls(Before, "end_object")

\* C11: the writer's end_object, made when no object is open, fails and
\* emits nothing.
C11_EndObjectUnopened ==
    EndWithoutBegin => ~last.ok /\ last.str = <<>>


\* the last call was a writer call that emits a token first thing, made
\* right after a call that emitted a value or a close
TokenAfterValueOrClose ==
    /\ Len(written) >= 2
    /\ last.side = "writer"
    /\ last.op \in {"write_value", "begin_object", "begin_sequence", "write_tuple"}
    /\ Top(Before).op \in {"write_value", "end_object", "end_sequence", "write_tuple"}

\* C12: a token emitted by write_value, begin_object, begin_sequence or
\* write_tuple right after write_value, end_object, end_sequence or
\* write_tuple (the sequence or tuple empty or not) is preceded by ", ".
C12_SeparatorAfterValue ==
    TokenAfterValueOrClose =>
        Len(last.str) >= 2 /\ SubSeq(last.str, 1, 2) = <<",", " ">>


\* the last call was one of the reader calls that begin with integrity_check
IntegrityChecked ==
    last.side = "reader" /\ last.op \in {"read_value", "begin_sequence", "read_tuple"}

\* what the last call, one that begins with integrity_check, makes of reader r
Rerun(r) ==
    IF last.op = "read_value" THEN sd_read_value(m_str, r, last.call.types[1])
    ELSE IF last.op = "begin_sequence" THEN sd_begin_sequence(m_str, r)
    ELSE sd_read_tuple(m_str, r, last.call.types)

\* C13: read_value, begin_sequence and read_tuple raise an error when no
\* object is open or when the innermost open object's begin_object found no
\* '(', and then leave cursor, counter and flag stack as they were; the flags
\* of the enclosing objects make no difference to the outcome.
C13_IntegrityCheck ==
    IntegrityChecked =>
        /\ last.pre.stk = <<>> \/ Top(last.pre.stk) = FALSE
              => ~last.ok /\ R = last.pre
        /\ last.pre.stk # <<>> =>
              LET k == Rerun([last.pre EXCEPT !.stk = <<Top(last.pre.stk)>>])
              IN k.ok = last.ok /\ k.r.pos = m_pos

\* read_value raised an error in an object without '(' nested in one with '('
C13_Witness ==
    /\ IntegrityChecked /\ last.op = "read_value"
    /\ last.pre.stk = <<TRUE, FALSE>>
    /\ ~last.ok /\ R = last.pre


\* the last call was the reader's end_object, made with an object open
EndOfOpenObject ==
    last.side = "reader" /\ last.op = "end_object" /\ last.pre.stk # <<>>

\* the characters the last call moved the cursor over
Consumed == Sub(m_str, last.pre.pos, m_pos)

\* the next character after the cursor of the reader before the last call
\* that is no separator
NextToken == At(m_str, skip_space_and_comma(m_str, last.pre.pos))

\* C14: end_object consumes a ')' exactly if the matching begin_object
\* consumed a '('; where it returns, it has popped that object's flag and
\* taken one off the counter; where the flag is true and the next character
\* that is no separator is not ')', it raises an error and neither pops nor
\* decrements.
C14_EndObjectParen ==
    EndOfOpenObject =>
        /\ last.ok =>
              /\ m_obj_had_left_parenthesis = Pop(last.pre.stk)
              /\ m_obj_count = last.pre.cnt - 1
              /\ Calls([i \in 1..Len(Consumed) |-> [op |-> Consumed[i]]], ")")
                    = (IF Top(last.pre.stk) THEN 1 ELSE 0)
              /\ \A i \in 1..Len(Consumed) : Consumed[i] \in Separators \cup {")"}
        /\ Top(last.pre.stk) /\ NextToken # ")" =>
              /\ ~last.ok
              /\ m_obj_had_left_parenthesis = last.pre.stk
              /\ m_obj_count = last.pre.cnt

\* an end_object consumed the ')' of an inner object, one with a flag below it
C14_Witness ==
    /\ EndOfOpenObject /\ last.ok
    /\ last.pre.stk = <<FALSE, TRUE>>
    /\ m_obj_had_left_parenthesis = <<FALSE>> /\ m_obj_count = 1
    /\ ")" \in {Consumed[i] : i \in 1..Len(Consumed)}


\* where the token at the cursor of the reader before the last call starts,
\* and the delimiter (space, comma, ')' or '}') that ends it, if any
TokenStart == skip_space_and_comma(m_str, last.pre.pos)

TokenEnd == find_if_cond(m_str, TokenStart)

\* the last call was a read_value for a byte string, made in an object with
\* '(' on a token that starts with no '"' and that a delimiter ends
UnquotedString ==
    /\ last.side = "reader" /\ last.op = "read_value"
    /\ last.call.types = <<pt_u8string>>
    /\ integrity_check(last.pre)
    /\ At(m_str, TokenStart) # DQ
    /\ TokenEnd < Len(m_str)

\* C15: read_value for a byte string, the next character that is no separator
\* not being '"', returns the token up to the next space, comma, ')' or '}'
\* as it stands, and leaves the cursor on that delimiter.
C15_UnquotedString ==
    UnquotedString =>
        /\ last.ok
        /\ last.vals = <<StrVariant(Sub(m_str, TokenStart, TokenEnd))>>
        /\ m_pos = TokenEnd


\* the offset of the '}' that closes the group open at offset p, depth
\* further groups being open there, or the end of s if none does
RECURSIVE MatchingBrace(_, _, _)
MatchingBrace(s, p, depth) ==
    IF p >= Len(s) THEN Len(s)
    ELSE IF s[p + 1] = "{" THEN MatchingBrace(s, p + 1, depth + 1)
    ELSE IF s[p + 1] = "}"
         THEN IF depth = 0 THEN p ELSE MatchingBrace(s, p + 1, depth - 1)
    ELSE MatchingBrace(s, p + 1, depth)

\* the last call was a begin_sequence that returned, a '}' matching its '{'
SequenceBegun ==
    /\ last.side = "reader" /\ last.op = "begin_sequence" /\ last.ok
    /\ MatchingBrace(m_str, TokenStart + 1, 0) < Len(m_str)

\* C16: begin_sequence returns one more than the number of commas between
\* the cursor, just after the '{' it consumed, and the '}' matching that '{',
\* the commas of nested groups included, and leaves the cursor just after
\* the '{'.
C16_CountToMatchingBrace ==
    SequenceBegun =>
        /\ m_pos = TokenStart + 1
        /\ last.num =
              1 + count(m_str, m_pos, MatchingBrace(m_str, m_pos, 0), ",")


\* what the reader call c makes of the text s and the reader r
Apply(c, s, r) ==
    IF c.op = "seek_object" THEN sd_seek_object(s, r)
    ELSE IF c.op = "begin_object" THEN sd_begin_object(s, r)
    ELSE IF c.op = "end_object" THEN sd_end_object(s, r)
    ELSE IF c.op = "begin_sequence" THEN sd_begin_sequence(s, r)
    ELSE IF c.op = "end_sequence" THEN sd_end_sequence(s, r)
    ELSE IF c.op = "read_value" THEN sd_read_value(s, r, c.types[1])
    ELSE sd_read_tuple(s, r, c.types)

\* the text s with the character ch put in at offset q
Insert(s, q, ch) == SubSeq(s, 1, q) \o <<ch>> \o SubSeq(s, q + 1, Len(s))

\* offset q of s lies outside every quoted string: an even number of '"',
\* none of them after a backslash, stands before it
Unquoted(s, q) ==
    Cardinality({i \in 1..q : s[i] = DQ /\ (i = 1 \/ s[i - 1] # BS)}) % 2 = 0

\* the texts that differ from the text read in one more space or comma, put
\* next to a space or comma that stands at or after the cursor of the reader
\* before the last call, outside quoted strings
MoreSeparators ==
    {Insert(m_str, q, ch) :
        q \in {p \in last.pre.pos..(Len(m_str) - 1) :
                  m_str[p + 1] \in Separators /\ Unquoted(m_str, p)},
        ch \in Separators}

\* C17: a reader call gives the same result and the same outcome, return or
\* error, on a text that differs from the text read only in one more space
\* or comma where a space or comma stands, outside quoted strings.
C17_PureSeparators ==
    (/\ last.side = "reader"
     /\ last.op \in {"seek_object", "begin_object", "begin_sequence", "read_value",
                     "read_tuple", "end_sequence", "end_object"}) =>
        \A s \in MoreSeparators :
            LET k == Apply(last.call, s, last.pre)
            IN /\ k.ok = last.ok
               /\ last.ok => k.str = last.str /\ k.num = last.num /\ k.vals = last.vals


\* C18: the reader's object counter is the depth of its flag stack in every
\* state: never below zero, and zero exactly where the stack is empty.
C18_CounterIsDepth ==
    /\ m_obj_count = Len(m_obj_had_left_parenthesis)
    /\ m_obj_count >= 0
    /\ m_obj_count = 0 <=> m_obj_had_left_parenthesis = <<>>

\* an end_object raised an error with two objects open, one without '('
C18_Witness ==
    /\ last.side = "reader" /\ last.op = "end_object" /\ ~last.ok
    /\ m_obj_count = 2
    /\ m_obj_had_left_parenthesis = <<FALSE, TRUE>>

\* C19: the cursor stays within the text, 0 <= m_pos <= Len(m_str), after
\* every call, those that raise an error and peek_object's rewind included.
C19_CursorInBounds ==
    m_pos >= 0 /\ m_pos <= Len(m_str)

\* a call raised an error at the end of a text, the cursor having moved there
C19_Witness ==
    /\ last.side = "reader" /\ ~last.ok
    /\ m_str # <<>> /\ m_pos = Len(m_str)
    /\ last.pre.pos < m_pos


\* the begin_object calls written for objects with at least one field: the
\* next call is not the object's end_object
ObjectsWithFields ==
    {i \in 1..(Len(written) - 1) :
        written[i].op = "begin_object" /\ written[i + 1].op # "end_object"}

\* the end_object calls written for objects with at least one field
EndsOfObjectsWithFields ==
    {i \in 2..Len(written) :
        written[i].op = "end_object" /\ written[i - 1].op # "begin_object"}

\* C20: the writer's parentheses balance: it has emitted one '(' for every
\* object with at least one field and one ')' for every such object closed
\* and none for the others; no prefix of the output holds more ')' than '(';
\* with every object closed the output holds as many ')' as '('.
C20_ParenthesesBalance ==
    LET opens  == {i \in 1..Len(out) : out[i] = "("}
        closes == {i \in 1..Len(out) : out[i] = ")"}
        scopes == Scopes(written)
    IN /\ Cardinality(opens) = Cardinality(ObjectsWithFields)
       /\ Cardinality(closes) = Cardinality(EndsOfObjectsWithFields)
       /\ \A k \in 0..Len(out) :
             Cardinality({i \in closes : i <= k})
                <= Cardinality({i \in opens : i <= k})
       /\ (written # <<>> /\ \A i \in 1..Len(scopes) : scopes[i] # "obj")
             => Cardinality(closes) = Cardinality(opens)

\* a value was rendered: an object with a field in an object, and an object
\* without fields
C20_Witness ==
    /\ pc = "rendered"
    /\ Cardinality(ObjectsWithFields) = 2
    /\ Calls(written, "begin_object") = 3
    /\ Cardinality({i \in 1..Len(out) : out[i] = ")"}) = 2

============================================================================
